---- MODULE Spec2Model ----
(***************************************************************************)
(* Model of reqdbcontentcreator/sources.py: the seven importers (asvs,     *)
(* nistcsf, bsic5, samm, csaccm, ciscontrols, bsigrundschutz), the         *)
(* create-and-track discipline they share, the panic handler, and the      *)
(* BSI building-block parser readBSIBuildingBlocks.                        *)
(*                                                                         *)
(* The remote repository (package reqdb) and the Rollback class            *)
(* (reqdbcontentcreator/rollback.py) are not part of sources.py; they      *)
(* are modelled from the specification: a store with one auto-increment    *)
(* id sequence per entity kind, create(kind) -> id, delete(kind, id),      *)
(* and a rollbackAll that deletes every recorded identifier in the order   *)
(* Requirements/ExtraEntries, Topics, Tags/ExtraTypes, Catalogues,         *)
(* skipping a delete that fails.                                           *)
(***************************************************************************)
EXTENDS Integers, Sequences, FiniteSets, TLC

\* ------------------------------------------------------------------ bounds
\* Topics that exist in the repository before the process starts: 0..MaxPre.
MaxPre == 2
\* Top-level entries of a source (ASVS chapters, CSF functions, C5 areas,
\* SAMM business functions, CCM domains, CIS controls, BSI building blocks).
MaxRoots == 2
\* Entries of each nested topic level below a top-level entry.
MaxSubs == 2
\* Requirement leaves per innermost topic (and BSI elemental threats).
MaxReqs == 2
\* Importer runs in one process lifetime.
MaxRuns == 2
\* Topics per building block of a parsed BSI document.
MaxDocTopics == 2
\* Leaf sections of one 'Gefaehrdungslage' section.
MaxThreats == 3

\* Requirement sections of a topic in the documents of SpecHeadings and SpecBSI.
MaxDocReqs == 2

\* Rows of a sheet, sections of an ASVS chapter.
MaxRows == 3

\* ------------------------------------------------------------------ kinds
Kinds == {"Tag", "ExtraType", "Topic", "Requirement", "ExtraEntry", "Catalogue"}

Importers ==
  {"asvs", "nistcsf", "bsic5", "samm", "csaccm", "ciscontrols", "bsigrundschutz"}

\* The Rollback list that holds identifiers of each entity kind.
ListOf(kind) ==
  CASE kind = "Tag" -> "tags"
    [] kind = "ExtraType" -> "extraTypes"
    [] kind = "Topic" -> "topics"
    [] kind = "Requirement" -> "requirements"
    [] kind = "ExtraEntry" -> "extraEntries"
    [] kind = "Catalogue" -> "catalogues"

\* ------------------------------------------------------------------ source data
\* The shape of the published source documents during one process lifetime.
\* quirk: "none"      every heading, cell and section is well formed;
\*        "noTag"     the last BSI requirement of every topic carries no
\*                    classification code (B|S|H) in its heading;
\*        "badFormat" the source drifted: see FormatErrorAtParse and the
\*                    raise steps of asvs, bsic5, ciscontrols and
\*                    writeBSIGrundschutzThreats.
Quirks == {"none", "noTag", "badFormat"}

Sources ==
  [roots : 1..MaxRoots, subs : 1..MaxSubs, reqs : 1..MaxReqs, quirk : Quirks]
\* ------------------------------------------------------------------ steps
\* One importer run is the sequence of its client calls, in program order.
\* A step names the values it uses by the local variable that holds them;
\* a variable stands for the result of the last step that assigned it.
\*   op      "create" | "raise" (an exception raised by the importer's own
\*           code inside its try block, before the next create is issued)
\*   var     the variable the returned entity is assigned to ("": none)
\*   parent  parent=<var> ("": no parent)
\*   tags    tags=[<var>, ...]; "None" is the literal None
\*   etype   extraTypeId=<var>["id"]
\*   req     requirementId=<var>["id"]
\*   rootOf  the root list the entity is appended to ("": none)
\*   group   topics=<root list> of a Catalogue
\*   extra   variables appended to that list in the call: topics=roots + [x]
\*   list    Rollback list appended to after the create ("none": no append)
\*   of      variable whose ["id"] is appended to that list
\*   key     position of the entry in the canonical mapping
\*   titleOf position of the mapping entry whose title is passed as title=
\*   title   title=, where the run is derived from a document's text
\*   visible visible=, likewise (the client's default is True)
Call(kind) ==
  [op |-> "create", kind |-> kind, var |-> "", parent |-> "", tags |-> <<>>,
   etype |-> "", req |-> "", rootOf |-> "", group |-> "", extra |-> <<>>,
   list |-> "none", of |-> "", key |-> <<>>, titleOf |-> <<>>, title |-> <<>>,
   visible |-> TRUE]

Raise == [Call("Tag") EXCEPT !.op = "raise"]

\* x = client.K.add(...); Rollback.<list>.append(x["id"])
Tracked(s, v, list) == [s EXCEPT !.var = v, !.list = list, !.of = v]

Elems(s) == {s[i] : i \in 1..Len(s)}

\* for i in 1..n: body(i) is Cat([i \in 1..n |-> body(i)]), the steps of the
\* iterations in order.
RECURSIVE Cat(_)
Cat(ss) == IF ss = <<>> THEN <<>> ELSE Head(ss) \o Cat(Tail(ss))

\* A raise ends the run: the steps after it are never reached.
UpToRaise(steps) ==
  LET R == {i \in 1..Len(steps) : steps[i].op = "raise"} IN
  IF R = {} THEN steps
  ELSE SubSeq(steps, 1, CHOOSE i \in R : \A j \in R : i <= j)

\* ------------------------------------------------------------------ shared create-and-track steps
\* A top-level Topic that is created and recorded but not appended to the
\* root list.
AddRootTopicNoRoot(v, key, roots) ==
  Tracked([Call("Topic") EXCEPT !.key = key, !.titleOf = key], v, "topics")

\* parentL1 = client.Topics.add(Topic(key, ...));
\* Rollback.topics.append(parentL1["id"]); rootTopics.append(parentL1)
AddRootTopic(v, key, roots) ==
  Tracked([Call("Topic") EXCEPT !.key = key, !.titleOf = key, !.rootOf = roots],
          v, "topics")

\* parentL2 = client.Topics.add(Topic(key, ..., parent=parentL1));
\* Rollback.topics.append(parentL2["id"])
AddTopic(v, parent, key) ==
  Tracked([Call("Topic") EXCEPT !.parent = parent, !.key = key, !.titleOf = key],
          v, "topics")

\* requirement = client.Requirements.add(Requirement(key, ..., parent, tags));
\* Rollback.<list>.append(requirement["id"])
AddRequirement(v, parent, tags, key, list) ==
  Tracked([Call("Requirement") EXCEPT
             !.parent = parent, !.tags = tags, !.key = key, !.titleOf = key],
          v, list)

\* client.ExtraEntries.add(ExtraEntry(content, extraTypeId, requirementId)):
\* the returned id is not kept.
AddExtraEntry(etype, req) ==
  [Call("ExtraEntry") EXCEPT !.etype = etype, !.req = req]

\* catalogue = client.Catalogues.add(Catalogue(..., topics=rootTopics)):
\* the returned id is only logged.
AddCatalogue(roots) ==
  [Call("Catalogue") EXCEPT !.var = "catalogue", !.group = roots]

\* ------------------------------------------------------------------ asvs
asvsTags ==
  << Tracked(Call("Tag"), "l1", "tags"),
     Tracked(Call("Tag"), "l2", "tags"),
     Tracked(Call("Tag"), "l3", "tags"),
     Tracked(Call("ExtraType"), "nist", "extraTypes"),
     Tracked(Call("ExtraType"), "cve", "extraTypes") >>

\* The levels the k-th item of a section requires; the first item of a
\* section is a Level 1 item and the only one with CWE references, every
\* item has NIST references.
asvsLevels(k) == IF k = 1 THEN <<"l1", "l2", "l3">> ELSE <<"l2", "l3">>

\* The requirement is created with title=itemL2["Name"], the name of the
\* section it is listed in.
asvsItem(key) ==
  LET k == key[Len(key)] IN
  <<[AddRequirement("requirement", "parentL2", asvsLevels(k), key,
                    "requirements")
       EXCEPT !.titleOf = SubSeq(key, 1, Len(key) - 1)]>>
    \o (IF k = 1 THEN <<AddExtraEntry("cve", "requirement")>> ELSE <<>>)
    \o <<AddExtraEntry("nist", "requirement")>>

asvs(d) ==
  IF d.quirk = "badFormat"
  THEN \* asvsData["Requirements"] is absent: KeyError at the head of the loop
       asvsTags \o <<Raise>>
  ELSE asvsTags
         \o Cat([i \in 1..d.roots |->
              <<AddRootTopic("parentL1", <<i>>, "rootTopics")>>
                \o Cat([j \in 1..d.subs |->
                     <<AddTopic("parentL2", "parentL1", <<i, j>>)>>
                       \o Cat([k \in 1..d.reqs |-> asvsItem(<<i, j, k>>)])])])
         \o <<AddCatalogue("rootTopics")>>

\* ------------------------------------------------------------------ nistcsf
\* Rollback.topics.append(requirement["id"]): the requirement's id goes to
\* the topics list.
nistcsfRequirement(key) ==
  AddRequirement("requirement", "parentL2", <<>>, key, "topics")

nistcsf(d) ==
  Cat([i \in 1..d.roots |->
    <<AddRootTopic("parentL1", <<i>>, "rootTopics")>>
      \o Cat([j \in 1..d.subs |->
           <<AddTopic("parentL2", "parentL1", <<i, j>>)>>
             \o Cat([k \in 1..d.reqs |-> <<nistcsfRequirement(<<i, j, k>>)>>])])])
    \o <<AddCatalogue("rootTopics")>>

\* ------------------------------------------------------------------ bsic5
bsic5ExtraTypeVars == <<"ac", "si1", "si2", "si3", "si4">>

bsic5ExtraTypes ==
  [e \in 1..Len(bsic5ExtraTypeVars) |->
     Tracked(Call("ExtraType"), bsic5ExtraTypeVars[e], "extraTypes")]

\* Rollback.topics.append(requirement["id"]), then the five ExtraEntries.
bsic5Requirement(key) ==
  <<AddRequirement("requirement", "parent", <<>>, key, "topics")>>
    \o [e \in 1..Len(bsic5ExtraTypeVars) |->
          AddExtraEntry(bsic5ExtraTypeVars[e], "requirement")]

\* kMatch = topicRe.match(k); kMatch.group(2): an Area cell without a
\* parenthesised code gives kMatch = None and an AttributeError. The
\* malformed cell, when the sheet has one, is the last area.
bsic5Area(d, i) ==
  IF d.quirk = "badFormat" /\ i = d.roots
  THEN <<Raise>>
  ELSE <<AddRootTopic("parent", <<i>>, "rootTopics")>>
         \o Cat([k \in 1..d.reqs |-> bsic5Requirement(<<i, k>>)])

bsic5(d) ==
  UpToRaise(bsic5ExtraTypes
              \o Cat([i \in 1..d.roots |-> bsic5Area(d, i)])
              \o <<AddCatalogue("rootTopics")>>)

\* ------------------------------------------------------------------ samm
sammMaturityVars == <<"maturity[1]", "maturity[2]", "maturity[3]">>

sammTags ==
  [m \in 1..Len(sammMaturityVars) |->
     Tracked(Call("Tag"), sammMaturityVars[m], "tags")]

\* The Maturity column of the k-th question of an activity.
sammMaturity(k) == sammMaturityVars[((k - 1) % Len(sammMaturityVars)) + 1]

samm(d) ==
  sammTags
    \o Cat([i \in 1..d.roots |->
         <<AddRootTopic("parentL1", <<i>>, "rootTopics")>>
           \o Cat([j \in 1..d.subs |->
                <<AddTopic("parentL2", "parentL1", <<i, j>>)>>
                  \o Cat([a \in 1..d.subs |->
                       <<AddTopic("parentL3", "parentL2", <<i, j, a>>)>>
                         \o Cat([k \in 1..d.reqs |->
                              <<AddRequirement("requirement", "parentL3",
                                               <<sammMaturity(k)>>,
                                               <<i, j, a, k>>,
                                               "requirements")>>])])])])
    \o <<AddCatalogue("rootTopics")>>

\* ------------------------------------------------------------------ csaccm
csaccm(d) ==
  Cat([i \in 1..d.roots |->
    <<AddRootTopic("parentL1", <<i>>, "rootTopics")>>
      \o Cat([k \in 1..d.reqs |->
           <<AddRequirement("requirement", "parentL1", <<>>, <<i, k>>,
                            "requirements")>>])])
    \o <<AddCatalogue("rootTopics")>>

\* ------------------------------------------------------------------ ciscontrols
\* The safeguard row with a blank Asset Type and Security Function, when the
\* sheet has one: the last safeguard of the last control.
cisBlank(d, i, k) == d.quirk = "badFormat" /\ i = d.roots /\ k = d.reqs

\* assets and functions hold the non-blank cell values of the safeguard rows
\* (one Asset Type and one Security Function are in use).
cisNamed(d) == \E i \in 1..d.roots : \E k \in 1..d.reqs : ~cisBlank(d, i, k)

\* After the third create the code appends igs["IG2"]["id"] again: the id of
\* igs["IG3"] is never recorded.
cisIGs ==
  << Tracked(Call("Tag"), "igs[IG1]", "tags"),
     Tracked(Call("Tag"), "igs[IG2]", "tags"),
     [Call("Tag") EXCEPT !.var = "igs[IG3]", !.list = "tags", !.of = "igs[IG2]"] >>

\* for k in assets: ...; for k in functions: ...
cisNameTags(d) ==
  IF cisNamed(d)
  THEN << Tracked(Call("Tag"), "assets[k]", "tags"),
          Tracked(Call("Tag"), "functions[k]", "tags") >>
  ELSE <<>>

\* The IG columns marked on the k-th safeguard of a control.
cisLevel(k) ==
  IF k = 1 THEN <<"igs[IG1]", "igs[IG2]", "igs[IG3]">>
  ELSE <<"igs[IG2]", "igs[IG3]">>

\* tags.append(functions[requirement["function"]]);
\* tags.append(assets[requirement["asset"]]): a blank cell is no key of the
\* dict and raises KeyError.
cisSafeguard(d, i, k) ==
  IF cisBlank(d, i, k)
  THEN Raise
  ELSE AddRequirement("requirement", "parentL1",
                      <<"functions[k]", "assets[k]">> \o cisLevel(k),
                      <<i, k>>, "requirements")

ciscontrols(d) ==
  UpToRaise(cisIGs
              \o cisNameTags(d)
              \o Cat([i \in 1..d.roots |->
                   <<AddRootTopic("parentL1", <<i>>, "rootTopics")>>
                     \o [k \in 1..d.reqs |-> cisSafeguard(d, i, k)]])
              \o <<AddCatalogue("rootTopics")>>)

\* ------------------------------------------------------------------ bsigrundschutz
bsiTagVars == <<"tags[B]", "tags[S]", "tags[H]">>

\* The classification code of the k-th requirement of a topic; "None" when
\* its heading carries none.
bsiTag(d, k) ==
  IF d.quirk = "noTag" /\ k = d.reqs THEN "None"
  ELSE bsiTagVars[((k - 1) % Len(bsiTagVars)) + 1]

\* tags=[tags[requirement["tag"]] if requirement["tag"] is not None else None]
bsiRequirementTags(d, k) == <<bsiTag(d, k)>>

\* A catalogue that is created without its id being recorded.
bsiCatalogueUntracked(roots, extra) ==
  [Call("Catalogue") EXCEPT !.var = "catalogue", !.group = roots, !.extra = extra]

\* catalogue = client.Catalogues.add(...); Rollback.catalogues.append(id)
bsiCatalogue(roots, extra) ==
  Tracked([Call("Catalogue") EXCEPT !.group = roots, !.extra = extra],
          "catalogue", "catalogues")

writeBSIRequirements(d) ==
  [t \in 1..Len(bsiTagVars) |-> Tracked(Call("Tag"), bsiTagVars[t], "tags")]
    \o Cat([i \in 1..d.roots |->
         <<AddRootTopic("buildingBlockRoot", <<i>>,
                        "writeBSIRequirements.buildingBlockRoots")>>
           \o Cat([j \in 1..d.subs |->
                <<AddTopic("parentTopic", "buildingBlockRoot", <<i, j>>)>>
                  \o [k \in 1..d.reqs |->
                        AddRequirement("requirementReturn", "parentTopic",
                                       bsiRequirementTags(d, k), <<i, j, k>>,
                                       "requirements")]])])
    \o <<bsiCatalogue("writeBSIRequirements.buildingBlockRoots", <<>>)>>

\* titleLine = title.replace("G ", "G", 1).split(" ", 1); titleLine[1]: a
\* heading without a title gives a one-element list and an IndexError. The
\* malformed heading, when the document has one, is the last elemental threat.
bsiElementalThreat(d, e) ==
  IF d.quirk = "badFormat" /\ e = d.reqs
  THEN Raise
  ELSE AddRequirement("requirement", "elementalRoot", <<"elementalTag">>,
                      <<0, e>>, "requirements")

writeBSIGrundschutzThreats(d) ==
  << Tracked(Call("Tag"), "elementalTag", "tags"),
     Tracked(Call("Tag"), "topicTag", "tags"),
     Tracked([Call("Topic") EXCEPT !.key = <<0>>, !.titleOf = <<0>>],
             "elementalRoot", "topics") >>
    \o [e \in 1..d.reqs |-> bsiElementalThreat(d, e)]
    \o Cat([i \in 1..d.roots |->
         <<AddRootTopic("buildingBlockRoot", <<i>>,
                        "writeBSIGrundschutzThreats.buildingBlockRoots")>>
           \o Cat([j \in 1..d.subs |->
                <<AddTopic("parentTopic", "buildingBlockRoot", <<i, j>>)>>
                  \o [k \in 1..d.reqs |->
                        AddRequirement("requirement", "parentTopic",
                                       <<"topicTag">>, <<i, j, k>>,
                                       "requirements")]])])
    \o <<bsiCatalogue("writeBSIGrundschutzThreats.buildingBlockRoots",
                      <<"elementalRoot">>)>>

bsigrundschutz(d) ==
  UpToRaise(writeBSIRequirements(d) \o writeBSIGrundschutzThreats(d))

\* ------------------------------------------------------------------ dispatch
Script(imp, d) ==
  CASE imp = "asvs" -> asvs(d)
    [] imp = "nistcsf" -> nistcsf(d)
    [] imp = "bsic5" -> bsic5(d)
    [] imp = "samm" -> samm(d)
    [] imp = "csaccm" -> csaccm(d)
    [] imp = "ciscontrols" -> ciscontrols(d)
    [] imp = "bsigrundschutz" -> bsigrundschutz(d)

\* Importers whose adapter reads the whole source before its try block: a
\* malformed source raises there, with no handler.
\*   nistcsf  m = re.match(...); m.group(2) with m = None
\*   samm     ids = row["ID"].split("-"); ids[1]
\*   csaccm   raise FileNotFoundError("Target source file not found in zip")
FormatErrorAtParse(imp, d) ==
  d.quirk = "badFormat" /\ imp \in {"nistcsf", "samm", "csaccm"}

\* The step at which variable v was last assigned before step n (0: never).
LastAssigned(steps, n, v) ==
  LET A == {m \in 1..(n - 1) : v # "" /\ steps[m].var = v} IN
  IF A = {} THEN 0 ELSE CHOOSE m \in A : \A x \in A : x <= m

\* The steps before step n whose entity was appended to root list g, in order.
RootsBefore(steps, n, g) ==
  SelectSeq([m \in 1..(n - 1) |-> m], LAMBDA m : g # "" /\ steps[m].rootOf = g)
\* ------------------------------------------------------------------ text
\* A string is the sequence of its characters.
Digit == <<"0", "1", "2", "3", "4", "5", "6", "7", "8", "9">>

\* str(n) for n >= 0
RECURSIVE ToStr(_)
ToStr(n) == IF n < 10 THEN <<Digit[n + 1]>> ELSE ToStr(n \div 10) \o <<Digit[(n % 10) + 1]>>

\* A zero in front of s whatever its length.
zfillOnce(s, width) == <<"0">> \o s

\* s.zfill(width): zeros on the left up to the width, after a leading sign.
RECURSIVE zfill(_, _)
zfill(s, width) ==
  IF Len(s) >= width THEN s
  ELSE IF s # <<>> /\ Head(s) \in {"+", "-"}
       THEN <<Head(s)>> \o zfill(Tail(s), width - 1)
       ELSE zfill(<<"0">> \o s, width)

\* The first position at which sep occurs in s (0: nowhere).
Find(s, sep) ==
  LET P == {i \in 1..(Len(s) - Len(sep) + 1) : SubSeq(s, i, i + Len(sep) - 1) = sep}
  IN  IF P = {} THEN 0 ELSE CHOOSE i \in P : \A j \in P : i <= j

\* s.split(sep, 1)
SplitFirst(s, sep) ==
  IF Find(s, sep) = 0 THEN <<s>>
  ELSE <<SubSeq(s, 1, Find(s, sep) - 1),
         SubSeq(s, Find(s, sep) + Len(sep), Len(s))>>

\* s.split(sep)
RECURSIVE Split(_, _)
Split(s, sep) ==
  IF Find(s, sep) = 0 THEN <<s>>
  ELSE <<SubSeq(s, 1, Find(s, sep) - 1)>>
         \o Split(SubSeq(s, Find(s, sep) + Len(sep), Len(s)), sep)

\* sep.join(parts)
RECURSIVE Join(_, _)
Join(sep, parts) ==
  IF parts = <<>> THEN <<>>
  ELSE IF Len(parts) = 1 THEN parts[1]
  ELSE parts[1] \o sep \o Join(sep, Tail(parts))

\* '.'.join([n.zfill(2) for n in code.split('.')])
PadSegments(code) ==
  LET parts == Split(code, <<".">>)
  IN  Join(<<".">>, [i \in 1..Len(parts) |-> zfill(parts[i], 2)])

\* s.startswith(prefix)
StartsWith(s, prefix) ==
  Len(s) >= Len(prefix) /\ SubSeq(s, 1, Len(prefix)) = prefix

\* s.replace(old, new, 1)
ReplaceFirst(s, old, new) ==
  IF Find(s, old) = 0 THEN s
  ELSE SubSeq(s, 1, Find(s, old) - 1) \o new
         \o SubSeq(s, Find(s, old) + Len(old), Len(s))

\* A dict is the sequence of its items in insertion order.
\* d[k] = v
DictSet(d, k, v) ==
  IF \E i \in 1..Len(d) : d[i].key = k
  THEN [i \in 1..Len(d) |-> IF d[i].key = k THEN [key |-> k, value |-> v] ELSE d[i]]
  ELSE Append(d, [key |-> k, value |-> v])

DictHas(d, k) == \E i \in 1..Len(d) : d[i].key = k

\* d[k]
DictGet(d, k) == d[CHOOSE i \in 1..Len(d) : d[i].key = k].value

\* s.strip(): without its leading and trailing blanks.
Strip(s) ==
  LET N == {i \in 1..Len(s) : s[i] # " "} IN
  IF N = {} THEN <<>>
  ELSE SubSeq(s, CHOOSE i \in N : \A j \in N : i <= j,
                 CHOOSE i \in N : \A j \in N : j <= i)

\* ------------------------------------------------------------------ readBSIBuildingBlocks
\* A section of the document is [title, body, sections]; only building
\* blocks and topics have the sub-sections the parser looks at:
\*   building block  [title, topics]
\*   topic           [title, threats, requirements]
\*   leaf            [title, body]

\* pypandoc.convert_text(...): the section's heading block, a blank line,
\* then its content; .split("\n\n", 1)[1] drops the heading block.
convertXMLDescriptionToMD(section) == <<section.title, section.body>>[2]

\* f"{topicKey}.G{threatIndex}": the index without its padding.
ThreatKeyUnpadded(topicKey, threatIndex) ==
  topicKey \o <<".", "G">> \o ToStr(threatIndex)

\* f"{topicKey}.G{threatIndex:02}"
ThreatKey(topicKey, threatIndex) ==
  topicKey \o <<".", "G">> \o zfill(ToStr(threatIndex), 2)

\* threatIndex = 1; for th in threatSections: ...; threatIndex += 1
RECURSIVE ReadThreats(_, _, _, _)
ReadThreats(topicKey, threatSections, threatIndex, threats) ==
  IF threatSections = <<>> THEN threats
  ELSE ReadThreats(
         topicKey, Tail(threatSections), threatIndex + 1,
         DictSet(threats, ThreatKey(topicKey, threatIndex),
                 [title |-> Head(threatSections).title,
                  description |-> convertXMLDescriptionToMD(Head(threatSections))]))

\* The code as the source prints it, without the correction.
KeepRequirementCode(code) == code

\* if titleLine[0] == "OPS.2.3A22": titleLine[0] = "OPS.2.3.A22"
FixRequirementCode(code) ==
  IF code = <<"O", "P", "S", ".", "2", ".", "3", "A", "2", "2">>
  THEN <<"O", "P", "S", ".", "2", ".", "3", ".", "A", "2", "2">>
  ELSE code

\* titleKeySplit = code.split(".A", 1);
\* ".A".join([titleKeySplit[0], titleKeySplit[1].zfill(2)]), then every
\* dot-delimited segment zero-padded to width 2.
NormalizeRequirementCode(code) ==
  LET titleKeySplit == SplitFirst(code, <<".", "A">>)
  IN  PadSegments(titleKeySplit[1] \o <<".", "A">> \o zfill(titleKeySplit[2], 2))

RequirementKey(code) == NormalizeRequirementCode(FixRequirementCode(code))

\* tagRe = re.compile(r".*\((B|S|H)\).*"); tagRe.match(title): the greedy
\* prefix makes group(1) the code of the last "(B)", "(S)" or "(H)".
TagOf(title) ==
  LET P == {i \in 1..(Len(title) - 2) :
              /\ title[i] = "("
              /\ title[i + 1] \in {"B", "S", "H"}
              /\ title[i + 2] = ")"}
  IN  IF P = {} THEN "None"
      ELSE title[(CHOOSE i \in P : \A j \in P : j <= i) + 1]

RECURSIVE ReadRequirements(_, _)
ReadRequirements(requirementSections, requirements) ==
  IF requirementSections = <<>> THEN requirements
  ELSE LET titleLine == SplitFirst(Head(requirementSections).title, <<" ">>)
       IN  ReadRequirements(
             Tail(requirementSections),
             DictSet(requirements, RequirementKey(titleLine[1]),
                     [title |-> titleLine[2],
                      tag |-> TagOf(titleLine[2]),
                      description |->
                        convertXMLDescriptionToMD(Head(requirementSections))]))

\* for t in topics: ...
RECURSIVE ReadTopics(_, _)
ReadTopics(topics, children) ==
  IF topics = <<>> THEN children
  ELSE LET topicTitleLine == SplitFirst(Head(topics).title, <<" ">>)
           topicKey == PadSegments(topicTitleLine[1])
       IN  ReadTopics(
             Tail(topics),
             DictSet(children, topicKey,
                     [title |-> topicTitleLine[2],
                      threats |-> ReadThreats(topicKey, Head(topics).threats, 1, <<>>),
                      requirements |->
                        ReadRequirements(Head(topics).requirements, <<>>)]))

\* for e in topicsET: ...
RECURSIVE ReadChapters(_, _)
ReadChapters(topicsET, buildingBlocks) ==
  IF topicsET = <<>> THEN buildingBlocks
  ELSE LET chapterTitle == SplitFirst(Head(topicsET).title, <<" ">>)
       IN  ReadChapters(
             Tail(topicsET),
             DictSet(buildingBlocks, chapterTitle[1],
                     [title |-> chapterTitle[2],
                      children |-> ReadTopics(Head(topicsET).topics, <<>>)]))

readBSIBuildingBlocks(topicsET) == ReadChapters(topicsET, <<>>)

\* titleKeySplit[1] with a code that has no ".A", titleLine[1] with a heading
\* that has no blank: IndexError.
RequirementRaises(title) ==
  LET titleLine == SplitFirst(title, <<" ">>)
  IN  \/ Len(SplitFirst(FixRequirementCode(titleLine[1]), <<".", "A">>)) < 2
      \/ Len(titleLine) < 2

\* chapterTitle[1], topicTitleLine[1] with a title that has no blank, or a
\* requirement heading that raises: readBSIBuildingBlocks does not return.
readBSIBuildingBlocksRaises(topicsET) ==
  \E e \in Elems(topicsET) :
    \/ Len(SplitFirst(e.title, <<" ">>)) < 2
    \/ \E s \in Elems(e.topics) :
         \/ Len(SplitFirst(s.title, <<" ">>)) < 2
         \/ \E r \in Elems(s.requirements) : RequirementRaises(r.title)

\* ------------------------------------------------------------------ bsigrundschutz on a document
\* The run of bsigrundschutz on the building blocks read from a document:
\* the same calls as above, with the keys and titles of the text.

\* Every requirement is created visible.
AlwaysVisible(title) == TRUE

\* visible=(False if requirement["title"].startswith("ENTFALLEN (") else True)
Visible(title) == ~StartsWith(title, <<"E", "N", "T", "F", "A", "L", "L", "E", "N", " ", "(">>)

\* tags[requirement["tag"]] if requirement["tag"] is not None else None
bsiTagOf(tag) ==
  CASE tag = "B" -> "tags[B]"
    [] tag = "S" -> "tags[S]"
    [] tag = "H" -> "tags[H]"
    [] OTHER -> "None"

Titled(s, title) == [s EXCEPT !.title = title]

writeBSIRequirementsOf(buildingBlocks) ==
  [t \in 1..Len(bsiTagVars) |-> Tracked(Call("Tag"), bsiTagVars[t], "tags")]
    \o Cat([b \in 1..Len(buildingBlocks) |->
         <<Titled(AddRootTopic("buildingBlockRoot", buildingBlocks[b].key,
                               "writeBSIRequirements.buildingBlockRoots"),
                  buildingBlocks[b].value.title)>>
           \o Cat([c \in 1..Len(buildingBlocks[b].value.children) |->
                LET topic == buildingBlocks[b].value.children[c] IN
                <<Titled(AddTopic("parentTopic", "buildingBlockRoot", topic.key),
                         topic.value.title)>>
                  \o [r \in 1..Len(topic.value.requirements) |->
                        LET requirement == topic.value.requirements[r] IN
                        [AddRequirement("requirementReturn", "parentTopic",
                                        <<bsiTagOf(requirement.value.tag)>>,
                                        requirement.key, "requirements")
                           EXCEPT !.title = requirement.value.title,
                                  !.visible = Visible(requirement.value.title)]]])])
    \o <<bsiCatalogue("writeBSIRequirements.buildingBlockRoots", <<>>)>>

\* f"{title} Gefährdungen"
ThreatsSuffix ==
  <<" ", "G", "e", "f", "ä", "h", "r", "d", "u", "n", "g", "e", "n">>

\* titleLine = title.replace("G ", "G", 1).split(" ", 1)
ElementalTitleLine(title) ==
  SplitFirst(ReplaceFirst(title, <<"G", " ">>, <<"G">>), <<" ">>)

writeBSIGrundschutzThreatsOf(elementalThreatsET, buildingBlocks) ==
  << Tracked(Call("Tag"), "elementalTag", "tags"),
     Tracked(Call("Tag"), "topicTag", "tags"),
     Titled(Tracked([Call("Topic") EXCEPT !.key = <<"E", "G">>,
                                          !.titleOf = <<"E", "G">>],
                    "elementalRoot", "topics"),
            <<"E", "l", "e", "m", "e", "n", "t", "a", "r", "e", " ", "G", "e", "f", "ä", "h", "r", "d", "u", "n", "g", "e", "n">>) >>
    \o [e \in 1..Len(elementalThreatsET) |->
          IF Len(ElementalTitleLine(elementalThreatsET[e].title)) < 2
          THEN Raise
          ELSE Titled(AddRequirement("requirement", "elementalRoot",
                                     <<"elementalTag">>,
                                     ElementalTitleLine(elementalThreatsET[e].title)[1],
                                     "requirements"),
                      ElementalTitleLine(elementalThreatsET[e].title)[2])]
    \o Cat([b \in 1..Len(buildingBlocks) |->
         <<Titled(AddRootTopic("buildingBlockRoot",
                               buildingBlocks[b].key \o <<" ", "(", "G", ")">>,
                               "writeBSIGrundschutzThreats.buildingBlockRoots"),
                  buildingBlocks[b].value.title \o ThreatsSuffix)>>
           \o Cat([c \in 1..Len(buildingBlocks[b].value.children) |->
                LET topic == buildingBlocks[b].value.children[c] IN
                <<Titled(AddTopic("parentTopic", "buildingBlockRoot",
                                  topic.key \o <<".", "G">>),
                         topic.value.title \o ThreatsSuffix)>>
                  \o [th \in 1..Len(topic.value.threats) |->
                        Titled(AddRequirement("requirement", "parentTopic",
                                              <<"topicTag">>,
                                              topic.value.threats[th].key,
                                              "requirements"),
                               topic.value.threats[th].value.title)]])])
    \o <<bsiCatalogue("writeBSIGrundschutzThreats.buildingBlockRoots",
                      <<"elementalRoot">>)>>

bsigrundschutzOf(elementalThreatsET, buildingBlocks) ==
  UpToRaise(writeBSIRequirementsOf(buildingBlocks)
              \o writeBSIGrundschutzThreatsOf(elementalThreatsET, buildingBlocks))

\* ------------------------------------------------------------------ nistcsf on a sheet
\* A row of the sheet is [Function, Category, Subcategory]; a blank cell is
\* the empty string.

\* re.match(r"(.+) \((.+)\)", s): both groups are greedy, so the first group
\* ends at the last " (" that still leaves a ")" one character or more
\* later, and the second group ends at the last ")". <<>> is None.
GreedyParen(s) ==
  LET Close == {j \in 1..Len(s) : s[j] = ")"}
      last == CHOOSE j \in Close : \A x \in Close : x <= j
      Open == {i \in 2..(Len(s) - 1) :
                 /\ s[i] = " " /\ s[i + 1] = "("
                 /\ Close # {} /\ i + 2 < last}
      open == CHOOSE i \in Open : \A x \in Open : x <= i
  IN  IF Close = {} \/ Open = {} THEN <<>>
      ELSE <<SubSeq(s, 1, open - 1), SubSeq(s, open + 2, last - 1)>>

\* The body of "for row in data" (sources.py): c is [o, function, category],
\* the mapping folded so far and the loop's function and category variables.
nistcsfRow(c, row) ==
  LET function == IF row.Function # <<>>
                  THEN GreedyParen(SplitFirst(row.Function, <<":">>)[1])[2]
                  ELSE c.function
      o1 == IF row.Function # <<>> /\ ~DictHas(c.o, function)
            THEN DictSet(c.o, function,
                         [title |-> GreedyParen(SplitFirst(row.Function, <<":">>)[1])[1],
                          children |-> <<>>])
            ELSE c.o
      category == IF row.Category # <<>>
                  THEN GreedyParen(SplitFirst(row.Category, <<":">>)[1])[2]
                  ELSE c.category
      \* if category not in o: the test looks the category up in o, the dict
      \* of the functions
      o2 == IF row.Category # <<>> /\ ~DictHas(o1, category)
            THEN DictSet(o1, function,
                   [DictGet(o1, function) EXCEPT !.children =
                      DictSet(@, category,
                              [title |-> GreedyParen(SplitFirst(row.Category, <<":">>)[1])[1],
                               requirements |-> <<>>])])
            ELSE o1
      requirement == SplitFirst(row.Subcategory, <<":">>)[1]
      requirements == DictGet(DictGet(o2, function).children, category).requirements
      title == IF StartsWith(SplitFirst(row.Subcategory, <<":">>)[2],
                             <<" ", "[", "W", "i", "t", "h", "d", "r", "a", "w", "n">>)
               THEN row.Subcategory
               ELSE SplitFirst(row.Subcategory, <<":">>)[2]
      o3 == IF row.Subcategory # <<>> /\ ~DictHas(requirements, requirement)
            THEN DictSet(o2, function,
                   [DictGet(o2, function) EXCEPT !.children =
                      DictSet(@, category,
                              [DictGet(@, category) EXCEPT !.requirements =
                                 DictSet(@, requirement, [title |-> Strip(title)])])])
            ELSE o2
  IN  [o |-> o3, function |-> function, category |-> category]

RECURSIVE nistcsfRows(_, _)
nistcsfRows(c, data) ==
  IF data = <<>> THEN c ELSE nistcsfRows(nistcsfRow(c, Head(data)), Tail(data))

\* o = {}; for row in data: ...
nistcsfFold(data) ==
  nistcsfRows([o |-> <<>>, function |-> <<>>, category |-> <<>>], data).o

\* visible="[Withdrawn" not in itemL3["title"]
Withdrawn == <<"[", "W", "i", "t", "h", "d", "r", "a", "w", "n">>

\* The try block of nistcsf on the folded mapping.
nistcsfOf(o) ==
  Cat([i \in 1..Len(o) |->
    <<Titled(AddRootTopic("parentL1", o[i].key, "rootTopics"), o[i].value.title)>>
      \o Cat([j \in 1..Len(o[i].value.children) |->
           LET itemL2 == o[i].value.children[j] IN
           <<Titled(AddTopic("parentL2", "parentL1", itemL2.key),
                    itemL2.value.title)>>
             \o [k \in 1..Len(itemL2.value.requirements) |->
                   LET itemL3 == itemL2.value.requirements[k] IN
                   [nistcsfRequirement(itemL3.key) EXCEPT
                      !.title = itemL3.value.title,
                      !.visible = Find(itemL3.value.title, Withdrawn) = 0]]])])
    \o <<AddCatalogue("rootTopics")>>

\* ------------------------------------------------------------------ bsic5 on a sheet
\* A row of the sheet is [Area, ID, Title].

\* if row["Area"] not in o.keys(): o[row["Area"]] = {}
\* o[row["Area"]][row["ID"]] = {"Title": row["Title"], ...}
bsic5Row(o, row) ==
  LET o1 == IF DictHas(o, row.Area) THEN o ELSE DictSet(o, row.Area, <<>>)
  IN  DictSet(o1, row.Area, DictSet(DictGet(o1, row.Area), row.ID, [Title |-> row.Title]))

RECURSIVE bsic5Fold(_, _)
bsic5Fold(o, data) ==
  IF data = <<>> THEN o ELSE bsic5Fold(bsic5Row(o, Head(data)), Tail(data))

\* The groups of the pattern taken in the other order.
GroupsSwapped(k) ==
  LET open == Find(k, <<" ", "(">>)
  IN  IF open = 0 \/ k[Len(k)] # ")" THEN <<>>
      ELSE <<SubSeq(k, open + 2, Len(k) - 1), SubSeq(k, 1, open - 1)>>

\* topicRe = re.compile(r"(.*?) \((.*?)\)"); topicRe.match(k): both groups
\* are lazy, so the first group ends at the first " (" with a ")" after it and
\* the second at the first ")" after that. <<>> is None.
LazyParen(k) ==
  LET Open == {i \in 1..(Len(k) - 1) :
                 /\ k[i] = " " /\ k[i + 1] = "("
                 /\ \E j \in (i + 2)..Len(k) : k[j] = ")"}
      open == CHOOSE i \in Open : \A x \in Open : i <= x
      Close == {j \in (open + 2)..Len(k) : k[j] = ")"}
      close == CHOOSE j \in Close : \A x \in Close : j <= x
  IN  IF Open = {} THEN <<>>
      ELSE <<SubSeq(k, 1, open - 1), SubSeq(k, open + 2, close - 1)>>

\* The try block of bsic5 on the folded mapping; kMatch.group(2) with
\* kMatch = None raises.
bsic5Of(o) ==
  UpToRaise(
    bsic5ExtraTypes
      \o Cat([a \in 1..Len(o) |->
           IF LazyParen(o[a].key) = <<>> THEN <<Raise>>
           ELSE <<Titled(AddRootTopic("parent",
                                      <<"C", "5", "-">> \o LazyParen(o[a].key)[2],
                                      "rootTopics"),
                         LazyParen(o[a].key)[1])>>
                  \o Cat([r \in 1..Len(o[a].value) |->
                       <<Titled(AddRequirement("requirement", "parent", <<>>,
                                               o[a].value[r].key, "topics"),
                                o[a].value[r].value.Title)>>
                         \o [e \in 1..Len(bsic5ExtraTypeVars) |->
                               AddExtraEntry(bsic5ExtraTypeVars[e], "requirement")]])])
      \o <<AddCatalogue("rootTopics")>>)

\* ------------------------------------------------------------------ ciscontrols on a sheet
\* A row of the sheet is [Control, Safeguard, Asset, Function, IG1, IG2, IG3]
\* (its "CIS Control", "CIS Safeguard", "Asset Type", "Security Function"
\* and level cells), with the number cells as the text the f-string prints.

\* s.replace(',', '.')
CommaToDot(s) == [i \in 1..Len(s) |-> IF s[i] = "," THEN "." ELSE s[i]]

\* The body of "for row in data": c is [o, assets, functions].
cisRow(c, row) ==
  LET control == <<"C", "I", "S", "-">> \o row.Control
      level == (IF row.IG1 = "x" THEN <<"igs[IG1]">> ELSE <<>>)
                 \o (IF row.IG2 = "x" THEN <<"igs[IG2]">> ELSE <<>>)
                 \o (IF row.IG3 = "x" THEN <<"igs[IG3]">> ELSE <<>>)
  IN  IF row.Safeguard = <<>>
      THEN [c EXCEPT !.o = DictSet(@, control, <<>>)]
      ELSE [o |-> DictSet(c.o, control,
                    DictSet(DictGet(c.o, control),
                            <<"C", "I", "S", "-">> \o CommaToDot(row.Safeguard),
                            [asset |-> row.Asset, function |-> row.Function,
                             level |-> level])),
            assets |-> IF row.Asset # <<>> /\ ~DictHas(c.assets, row.Asset)
                       THEN DictSet(c.assets, row.Asset, "None") ELSE c.assets,
            \* the second test also looks the value up in assets
            functions |-> IF row.Function # <<>> /\ ~DictHas(c.assets, row.Function)
                          THEN DictSet(c.functions, row.Function, "None")
                          ELSE c.functions]

RECURSIVE cisRows(_, _)
cisRows(c, data) ==
  IF data = <<>> THEN c ELSE cisRows(cisRow(c, Head(data)), Tail(data))

\* o = {}; assets = {}; functions = {}; for row in data: ...
cisFold(data) == cisRows([o |-> <<>>, assets |-> <<>>, functions |-> <<>>], data)

\* The position of the tag variable of a name in its dict (0: KeyError).
cisTagIndex(d, name) ==
  IF DictHas(d, name) THEN CHOOSE i \in 1..Len(d) : d[i].key = name ELSE 0

cisAssetVar(i) == <<"assets[1]", "assets[2]">>[i]

cisFunctionVar(i) == <<"functions[1]", "functions[2]">>[i]

\* The try block of ciscontrols on what the fold left.
ciscontrolsOf(c) ==
  UpToRaise(
    cisIGs
      \o [k \in 1..Len(c.assets) |-> Tracked(Call("Tag"), cisAssetVar(k), "tags")]
      \o [k \in 1..Len(c.functions) |-> Tracked(Call("Tag"), cisFunctionVar(k), "tags")]
      \o Cat([i \in 1..Len(c.o) |->
           <<AddRootTopic("parentL1", c.o[i].key, "rootTopics")>>
             \o [r \in 1..Len(c.o[i].value) |->
                   LET requirement == c.o[i].value[r] IN
                   IF \/ cisTagIndex(c.functions, requirement.value.function) = 0
                      \/ cisTagIndex(c.assets, requirement.value.asset) = 0
                   THEN Raise
                   ELSE AddRequirement(
                          "requirement", "parentL1",
                          <<cisFunctionVar(cisTagIndex(c.functions,
                                                       requirement.value.function)),
                            cisAssetVar(cisTagIndex(c.assets,
                                                    requirement.value.asset))>>
                            \o requirement.value.level,
                          requirement.key, "requirements")]])
      \o <<AddCatalogue("rootTopics")>>)

\* ------------------------------------------------------------------ asvs on its document
\* asvsData["Requirements"] is a list of chapters [Shortcode, Items], their
\* items sections [Shortcode, Items], their items requirements [Shortcode].

\* f"V{shortcode[1:].zfill(2)}"
asvsChapterKey(shortcode) == <<"V">> \o zfill(Tail(shortcode), 2)

\* f"V{'.'.join([n.zfill(2) for n in shortcode[1:].split('.')])}"
asvsKey(shortcode) == <<"V">> \o PadSegments(Tail(shortcode))

\* The two try blocks of asvs on the document; every item is required at
\* all three levels and has NIST references only.
asvsOf(requirements) ==
  asvsTags
    \o Cat([i \in 1..Len(requirements) |->
         <<AddRootTopic("parentL1", asvsChapterKey(requirements[i].Shortcode),
                        "rootTopics")>>
           \o Cat([j \in 1..Len(requirements[i].Items) |->
                LET itemL2 == requirements[i].Items[j] IN
                <<AddTopic("parentL2", "parentL1", asvsKey(itemL2.Shortcode))>>
                  \o Cat([k \in 1..Len(itemL2.Items) |->
                       << [AddRequirement("requirement", "parentL2",
                                          <<"l1", "l2", "l3">>,
                                          asvsKey(itemL2.Items[k].Shortcode),
                                          "requirements")
                             EXCEPT !.titleOf = asvsKey(itemL2.Shortcode)],
                          AddExtraEntry("nist", "requirement") >>])])])
    \o <<AddCatalogue("rootTopics")>>

\* ------------------------------------------------------------------ state
VARIABLES
  repo,        \* repository: entity kind -> ids of the entities it holds
  nextId,      \* repository: entity kind -> id the next create returns
  Rollback,    \* the Rollback class: its per-kind identifier lists
  pc,          \* "idle" | "running" | "panic" | "exited" | "crashed"
  importer,    \* the importer of the current (or last) run
  src,         \* the source documents
  prog,        \* the steps of the current run: Script(importer, src)
  calls,       \* the create calls the current run has issued, resolved
  completed,   \* importer runs that returned normally
  exitStatus,  \* the process's exit status, -1 while it runs
  cause,       \* why the run failed: "none" | "format" | "repository"
  deletes,     \* the deletes rollbackAll issued: [kind, id, ok]
  pre,         \* history: repo when the current run started
  mark,        \* history: length of each Rollback list when the run started
  earlier,     \* history: kind -> ids created by the runs that returned
  doc,         \* the BSI document handed to readBSIBuildingBlocks
  parsed       \* what readBSIBuildingBlocks returned, <<>> before the call

vars ==
  <<repo, nextId, Rollback, pc, importer, src, prog, calls, completed, exitStatus,
    cause, deletes, pre, mark, earlier, doc, parsed>>

Lists ==
  {"tags", "extraTypes", "topics", "requirements", "extraEntries", "catalogues"}

\* ------------------------------------------------------------------ repository
\* create(kind) -> id: the store assigns the next id of that kind.
RepoAdd(r, kind, id) == [r EXCEPT ![kind] = @ \cup {id}]

\* delete(kind, id): succeeds when the store holds an entity of that kind
\* with that id (whichever run created it), and fails otherwise.
RepoHas(r, kind, id) == id \in r[kind]

RepoDelete(r, kind, id) == [r EXCEPT ![kind] = @ \ {id}]

\* ------------------------------------------------------------------ rollback
Pairs(kind, ids) == [i \in 1..Len(ids) |-> [kind |-> kind, id |-> ids[i]]]

\* The order in which rollbackAll walks the recorded lists.
RollbackOrder(R) ==
  Pairs("Requirement", R.requirements)
    \o Pairs("ExtraEntry", R.extraEntries)
    \o Pairs("Topic", R.topics)
    \o Pairs("Tag", R.tags)
    \o Pairs("ExtraType", R.extraTypes)
    \o Pairs("Catalogue", R.catalogues)

\* Each delete is tried in turn; a failure is logged and skipped. A delete
\* succeeds when the store holds the entity and no earlier delete of this
\* rollback removed it.
DeleteEach(r, queue) ==
  [repo |-> [k \in Kinds |->
               r[k] \ {queue[i].id : i \in {j \in 1..Len(queue) : queue[j].kind = k}}],
   log |-> [i \in 1..Len(queue) |->
              [kind |-> queue[i].kind, id |-> queue[i].id,
               ok |-> /\ RepoHas(r, queue[i].kind, queue[i].id)
                      /\ \A j \in 1..(i - 1) : queue[j] # queue[i]]]]

rollbackAll(r, R) == DeleteEach(r, RollbackOrder(R))

\* ------------------------------------------------------------------ the run
NoLists == [l \in Lists |-> <<>>]

Init ==
  /\ \E p \in 0..MaxPre :
       /\ repo = [k \in Kinds |-> IF k = "Topic" THEN 1..p ELSE {}]
       /\ nextId = [k \in Kinds |-> IF k = "Topic" THEN p + 1 ELSE 1]
  /\ Rollback = NoLists
  /\ pc = "idle"
  /\ importer = "none"
  /\ src \in Sources
  /\ prog = <<>>
  /\ calls = <<>>
  /\ completed = 0
  /\ exitStatus = -1
  /\ cause = "none"
  /\ deletes = <<>>
  /\ pre = repo
  /\ mark = [l \in Lists |-> 0]
  /\ earlier = [k \in Kinds |-> {}]
  /\ doc = <<>>
  /\ parsed = <<>>

\* The steps of the current run, and the one it is about to take.
Steps == prog

AtStep == Len(calls) + 1

\* The id held by variable v when step n is issued (0 for None).
IdOf(cs, steps, n, v) ==
  IF LastAssigned(steps, n, v) = 0 THEN 0 ELSE cs[LastAssigned(steps, n, v)].id

\* The create call of step n as the client sends it: references resolved.
Resolved(steps, n, cs, id, ok) ==
  LET s == steps[n]
      roots == RootsBefore(steps, n, s.group)
  IN  [kind |-> s.kind, id |-> id, ok |-> ok, key |-> s.key,
       titleOf |-> s.titleOf, title |-> s.title, visible |-> s.visible,
       parent |-> IdOf(cs, steps, n, s.parent),
       tags |-> [t \in 1..Len(s.tags) |-> IdOf(cs, steps, n, s.tags[t])],
       etype |-> IdOf(cs, steps, n, s.etype),
       req |-> IdOf(cs, steps, n, s.req),
       topics |-> [t \in 1..Len(roots) |-> cs[roots[t]].id]
                    \o [t \in 1..Len(s.extra) |-> IdOf(cs, steps, n, s.extra[t])]]

\* An importer is called: it retrieves and parses its source and enters its
\* try block.
Enter(imp) ==
  /\ pc = "idle"
  /\ ~FormatErrorAtParse(imp, src)
  /\ pc' = "running"
  /\ importer' = imp
  /\ prog' = Script(imp, src)
  /\ calls' = <<>>
  /\ pre' = repo
  /\ mark' = [l \in Lists |-> Len(Rollback[l])]
  /\ UNCHANGED <<repo, nextId, Rollback, src, completed, exitStatus, cause,
                 deletes, earlier, doc, parsed>>

\* The process calls its importer.
Begin(imp) == completed = 0 /\ Enter(imp)

\* The same process calls a further importer after one has returned.
BeginAnother(imp) == completed >= 1 /\ completed < MaxRuns /\ Enter(imp)

\* The adapter raises while it folds its source, outside any try block: the
\* interpreter ends the process with status 1.
ParseError(imp) ==
  /\ pc = "idle"
  /\ completed = 0
  /\ FormatErrorAtParse(imp, src)
  /\ pc' = "crashed"
  /\ importer' = imp
  /\ prog' = <<>>
  /\ calls' = <<>>
  /\ pre' = repo
  /\ mark' = [l \in Lists |-> Len(Rollback[l])]
  /\ cause' = "format"
  /\ exitStatus' = 1
  /\ UNCHANGED <<repo, nextId, Rollback, src, completed, deletes, earlier,
                 doc, parsed>>

\* x = client.K.add(...) returns; Rollback.<list>.append(...["id"]).
CreateOk ==
  /\ pc = "running"
  /\ AtStep <= Len(Steps)
  /\ LET s == Steps[AtStep]
         id == nextId[s.kind]
         cs == Append(calls, Resolved(Steps, AtStep, calls, id, TRUE))
     IN  /\ s.op = "create"
         /\ repo' = RepoAdd(repo, s.kind, id)
         /\ nextId' = [nextId EXCEPT ![s.kind] = id + 1]
         /\ calls' = cs
         /\ Rollback' = IF s.list = "none" THEN Rollback
                        ELSE [Rollback EXCEPT ![s.list] =
                                Append(@, IdOf(cs, Steps, AtStep + 1, s.of))]
  /\ UNCHANGED <<pc, importer, src, prog, completed, exitStatus, cause, deletes,
                 pre, mark, earlier, doc, parsed>>

\* client.K.add(...) raises: the repository rejected the create. Nothing is
\* stored and nothing is appended; control passes to the except clause.
CreateFail ==
  /\ pc = "running"
  /\ AtStep <= Len(Steps)
  /\ LET s == Steps[AtStep] IN
       /\ s.op = "create"
       /\ calls' = Append(calls, Resolved(Steps, AtStep, calls, 0, FALSE))
  /\ pc' = "panic"
  /\ cause' = "repository"
  /\ UNCHANGED <<repo, nextId, Rollback, importer, src, prog, completed, exitStatus,
                 deletes, pre, mark, earlier, doc, parsed>>

\* The importer's own code raises inside the try block on malformed source
\* data; control passes to the except clause.
RaiseInTry ==
  /\ pc = "running"
  /\ AtStep <= Len(Steps)
  /\ Steps[AtStep].op = "raise"
  /\ pc' = "panic"
  /\ cause' = "format"
  /\ UNCHANGED <<repo, nextId, Rollback, importer, src, prog, calls, completed,
                 exitStatus, deletes, pre, mark, earlier, doc, parsed>>

\* The ids of the entities of a kind the calls created.
CreatedIds(cs, kind) ==
  {cs[i].id : i \in {j \in 1..Len(cs) : cs[j].ok /\ cs[j].kind = kind}}

\* The importer returns after its last create.
Return ==
  /\ pc = "running"
  /\ AtStep > Len(Steps)
  /\ pc' = "idle"
  /\ completed' = completed + 1
  /\ earlier' = [k \in Kinds |-> earlier[k] \cup CreatedIds(calls, k)]
  /\ UNCHANGED <<repo, nextId, Rollback, importer, src, prog, calls, exitStatus,
                 cause, deletes, pre, mark, doc, parsed>>

\* sys.exit() with no argument: SystemExit(None), exit status 0.
ExitStatus == 0

\* panic(e, client), and the same five lines inline in csaccm:
\* Rollback.rollbackAll(client); sys.exit()
panic ==
  /\ pc = "panic"
  /\ LET done == rollbackAll(repo, Rollback) IN
       /\ repo' = done.repo
       /\ deletes' = done.log
  /\ exitStatus' = ExitStatus
  /\ pc' = "exited"
  /\ UNCHANGED <<nextId, Rollback, importer, src, prog, calls, completed, cause,
                 pre, mark, earlier, doc, parsed>>

Next ==
  \/ \E imp \in Importers : Begin(imp)
  \/ \E imp \in Importers : ParseError(imp)
  \/ CreateOk
  \/ CreateFail
  \/ RaiseInTry
  \/ Return
  \/ panic

\* One process, one importer run.
Spec == Init /\ [][Next]_vars

\* One process, several importer runs one after the other.
NextSession ==
  \/ Next
  \/ \E imp \in Importers : BeginAnother(imp)

SpecSession == Init /\ [][NextSession]_vars

\* ------------------------------------------------------------------ reading a document
\* The documents the parser is applied to: one building-block chapter with
\* up to MaxDocTopics topics, each with up to MaxThreats threat sections
\* and at most one requirement section.
ChapterTitle == <<"S", "Y", "S", " ", "I", "T">>

TopicTitles ==
  { <<"S", "Y", "S", ".", "1", ".", "1", " ", "A">>,
    <<"O", "P", "S", ".", "2", ".", "3", " ", "B">>,
    <<"S", "Y", "S", ".", "0", "1", ".", "1", " ", "C">> }

ThreatSection(i) == [title |-> <<"T", Digit[i + 1]>>, body |-> <<"t", Digit[i + 1]>>]

ThreatSections == {[i \in 1..n |-> ThreatSection(i)] : n \in 0..MaxThreats}

RequirementSections ==
  { <<>>,
    <<[title |-> <<"S", "Y", "S", ".", "1", ".", "1", ".", "A", "1", " ",
                   "X", " ", "(", "B", ")">>,
       body |-> <<"r", "1">>]>>,
    <<[title |-> <<"O", "P", "S", ".", "2", ".", "3", "A", "2", "2", " ", "Y">>,
       body |-> <<"r", "2">>]>> }

TopicSections ==
  [title : TopicTitles, threats : ThreatSections, requirements : RequirementSections]

\* The document with the given topic sections in its chapter.
Document(topics) == <<[title |-> ChapterTitle, topics |-> topics]>>

InitParse ==
  /\ repo = [k \in Kinds |-> {}]
  /\ nextId = [k \in Kinds |-> 1]
  /\ Rollback = NoLists
  /\ pc = "idle"
  /\ importer = "none"
  /\ src = [roots |-> 1, subs |-> 1, reqs |-> 1, quirk |-> "none"]
  /\ prog = <<>>
  /\ calls = <<>>
  /\ completed = 0
  /\ exitStatus = -1
  /\ cause = "none"
  /\ deletes = <<>>
  /\ pre = repo
  /\ mark = [l \in Lists |-> 0]
  /\ earlier = [k \in Kinds |-> {}]
  /\ \E n \in 1..MaxDocTopics :
       \E topics \in [1..n -> TopicSections] : doc = Document(topics)
  /\ parsed = <<>>

\* buildingBlocks = readBSIBuildingBlocks(topics, namespaces)
Read ==
  /\ pc = "idle"
  /\ parsed = <<>>
  /\ doc # <<>>
  /\ ~readBSIBuildingBlocksRaises(doc)
  /\ parsed' = readBSIBuildingBlocks(doc)
  /\ UNCHANGED <<repo, nextId, Rollback, pc, importer, src, prog, calls,
                 completed, exitStatus, cause, deletes, pre, mark, earlier, doc>>

NextParse == Read

SpecParse == InitParse /\ [][NextParse]_vars

\* readBSIBuildingBlocks raises, outside any try block: the interpreter ends
\* the process with status 1.
ReadRaises ==
  /\ pc = "idle"
  /\ parsed = <<>>
  /\ doc # <<>>
  /\ readBSIBuildingBlocksRaises(doc)
  /\ pc' = "crashed"
  /\ cause' = "format"
  /\ exitStatus' = 1
  /\ UNCHANGED <<repo, nextId, Rollback, importer, src, prog, calls, completed,
                 deletes, pre, mark, earlier, doc, parsed>>

\* ------------------------------------------------------------------ reading requirement headings
\* The requirement headings "{code} {title}" the parser is applied to.
RequirementCodes ==
  { <<"S", "Y", "S", ".", "1", ".", "1", ".", "A", "1">>,
    <<"O", "P", "S", ".", "2", ".", "3", "A", "2", "2">>,
    <<"O", "P", "S", ".", "2", ".", "3", ".", "A", "2", "2">>,
    <<"S", "Y", "S", ".", "0", "1", ".", "0", "1", ".", "A", "0", "1">>,
    <<"A", "P", "P", ".", "1", ".", "A", "1", "0">>,
    <<"S", "Y", "S", ".", "1", ".", "1">> }

RequirementTitles ==
  { <<"X", " ", "(", "B", ")">>,
    <<"Y", " ", "(", "S", ")">>,
    <<"Z">>,
    <<"(", "B", ")", " ", "V", " ", "(", "H", ")">> }

RequirementHeadings ==
  {[title |-> c \o <<" ">> \o h, body |-> <<"r">>] :
     c \in RequirementCodes, h \in RequirementTitles}

\* One topic with up to MaxDocReqs requirement sections.
InitHeadings ==
  /\ repo = [k \in Kinds |-> {}]
  /\ nextId = [k \in Kinds |-> 1]
  /\ Rollback = NoLists
  /\ pc = "idle"
  /\ importer = "none"
  /\ src = [roots |-> 1, subs |-> 1, reqs |-> 1, quirk |-> "none"]
  /\ prog = <<>>
  /\ calls = <<>>
  /\ completed = 0
  /\ exitStatus = -1
  /\ cause = "none"
  /\ deletes = <<>>
  /\ pre = repo
  /\ mark = [l \in Lists |-> 0]
  /\ earlier = [k \in Kinds |-> {}]
  /\ \E title \in TopicTitles : \E n \in 1..MaxDocReqs :
       \E requirements \in [1..n -> RequirementHeadings] :
         doc = Document(<<[title |-> title, threats |-> <<>>,
                           requirements |-> requirements]>>)
  /\ parsed = <<>>

NextHeadings == Read \/ ReadRaises

SpecHeadings == InitHeadings /\ [][NextHeadings]_vars

\* ------------------------------------------------------------------ bsigrundschutz from its document
\* The requirement headings of the documents bsigrundschutz is run on.
BSIHeadings ==
  { [title |-> <<"S", "Y", "S", ".", "1", ".", "1", ".", "A", "1", " ", "X", " ", "(", "B", ")">>, body |-> <<"r">>],
    [title |-> <<"S", "Y", "S", ".", "1", ".", "1", ".", "A", "2", " ", "E", "N", "T", "F", "A", "L", "L", "E", "N", " ", "(", "B", ")">>, body |-> <<"r">>],
    [title |-> <<"S", "Y", "S", ".", "1", ".", "1", ".", "A", "3", " ", "E", "N", "T", "F", "A", "L", "L", "E", "N">>, body |-> <<"r">>],
    [title |-> <<"S", "Y", "S", ".", "1", ".", "1", ".", "A", "4", " ", "Y", " ", "E", "N", "T", "F", "A", "L", "L", "E", "N", " ", "(", "S", ")">>, body |-> <<"r">>],
    [title |-> <<"S", "Y", "S", ".", "1", ".", "1", ".", "A", "2", " ", "Z", " ", "(", "H", ")">>, body |-> <<"r">>] }

\* The chapter of elemental threats.
ElementalThreats == <<[title |-> <<"G", " ", "0", ".", "1", " ", "F">>, body |-> <<"e">>]>>

\* One topic with one threat and up to MaxDocReqs requirement sections.
InitBSI ==
  /\ repo = [k \in Kinds |-> {}]
  /\ nextId = [k \in Kinds |-> 1]
  /\ Rollback = NoLists
  /\ pc = "idle"
  /\ importer = "none"
  /\ src = [roots |-> 1, subs |-> 1, reqs |-> 1, quirk |-> "none"]
  /\ prog = <<>>
  /\ calls = <<>>
  /\ completed = 0
  /\ exitStatus = -1
  /\ cause = "none"
  /\ deletes = <<>>
  /\ pre = repo
  /\ mark = [l \in Lists |-> 0]
  /\ earlier = [k \in Kinds |-> {}]
  /\ \E n \in 1..MaxDocReqs :
       \E requirements \in [1..n -> BSIHeadings] :
         doc = Document(<<[title |-> <<"S", "Y", "S", ".", "1", ".", "1", " ", "A">>,
                           threats |-> <<ThreatSection(1)>>,
                           requirements |-> requirements]>>)
  /\ parsed = <<>>

\* bsigrundschutz enters its try block with the building blocks it read.
BeginParsed ==
  /\ pc = "idle"
  /\ completed = 0
  /\ parsed # <<>>
  /\ pc' = "running"
  /\ importer' = "bsigrundschutz"
  /\ prog' = bsigrundschutzOf(ElementalThreats, parsed)
  /\ calls' = <<>>
  /\ pre' = repo
  /\ mark' = [l \in Lists |-> Len(Rollback[l])]
  /\ UNCHANGED <<repo, nextId, Rollback, src, completed, exitStatus, cause,
                 deletes, earlier, doc, parsed>>

NextBSI ==
  \/ Read
  \/ BeginParsed
  \/ CreateOk
  \/ CreateFail
  \/ Return
  \/ panic

SpecBSI == InitBSI /\ [][NextBSI]_vars

\* ------------------------------------------------------------------ importers on their sources
\* The sources the tabular importers and asvs are run on.
nistcsfSheetRows ==
  [Function : {<<>>, <<"G", "O", "V", "E", "R", "N", " ", "(", "G", "V", ")", ":", " ", "d">>},
   Category : {<<>>, <<"C", "t", "x", " ", "(", "G", "V", ".", "O", "C", ")", ":", " ", "d">>, <<"R", "i", "s", "k", " ", "(", "G", "V", ".", "R", "M", ")", ":", " ", "d">>},
   Subcategory : {<<"G", "V", ".", "O", "C", "-", "0", "1", ":", " ", "t">>, <<"G", "V", ".", "O", "C", "-", "0", "2", ":", " ", "t">>}]

bsic5SheetRows ==
  [Area : {<<>>, <<"A", " ", "(", "A", "1", ")">>, <<"B", " ", "(", "B", "2", ")">>},
   ID : {<<"A", "1", ".", "1">>, <<"A", "1", ".", "2">>, <<"A", "1", ".", "1", "0">>},
   Title : {<<"T">>}]

cisSheetRows ==
  {[Control |-> c, Safeguard |-> IF s = <<>> THEN <<>> ELSE c \o s,
    Asset |-> a, Function |-> IF s = <<>> THEN <<>> ELSE <<"P">>,
    IG1 |-> IF s = <<>> THEN "" ELSE "x", IG2 |-> "", IG3 |-> ""] :
     c \in {<<"2">>, <<"1", "0">>},
     s \in {<<>>, <<",", "1">>, <<",", "2">>},
     a \in {<<>>, <<"D">>}}

asvsSections ==
  {[Shortcode |-> s, Items |-> <<[Shortcode |-> s \o <<".", "1">>]>>] :
     s \in {<<"V", "1", ".", "1">>, <<"V", "1", ".", "0", "1">>, <<"V", "1", ".", "2">>, <<"V", "1", ".", "1", "0">>}}

\* The sheets and documents of an importer: nistcsf sheets start with a full
\* row, in ciscontrols sheets the row of a control precedes the rows of its
\* safeguards, the sections of an asvs chapter have different shortcodes.
SourcesOf(adapter) ==
  UNION {
    CASE adapter = "nistcsf" ->
           {data \in [1..n -> nistcsfSheetRows] :
              data[1].Function # <<>> /\ data[1].Category # <<>>}
      [] adapter = "bsic5" -> [1..n -> bsic5SheetRows]
      [] adapter = "ciscontrols" ->
           {data \in [1..n -> cisSheetRows] :
              \A i \in 1..n :
                /\ data[i].Safeguard = <<>> => data[i].Asset = <<>>
                /\ data[i].Safeguard # <<>> =>
                     \E j \in 1..(i - 1) :
                       data[j].Safeguard = <<>> /\ data[j].Control = data[i].Control}
      [] adapter = "asvs" ->
           {<<[Shortcode |-> <<"V", "1">>, Items |-> sections]>> :
              sections \in {s \in [1..n -> asvsSections] :
                              \A i, j \in 1..n : s[i] = s[j] => i = j}}
    : n \in 1..MaxRows}

SheetImporters == {"nistcsf", "bsic5", "ciscontrols"}

InitSources ==
  /\ repo = [k \in Kinds |-> {}]
  /\ nextId = [k \in Kinds |-> 1]
  /\ Rollback = NoLists
  /\ pc = "idle"
  /\ importer = "none"
  /\ src = [roots |-> 1, subs |-> 1, reqs |-> 1, quirk |-> "none"]
  /\ prog = <<>>
  /\ calls = <<>>
  /\ completed = 0
  /\ exitStatus = -1
  /\ cause = "none"
  /\ deletes = <<>>
  /\ pre = repo
  /\ mark = [l \in Lists |-> 0]
  /\ earlier = [k \in Kinds |-> {}]
  /\ \E adapter \in SheetImporters \cup {"asvs"} :
       \E data \in SourcesOf(adapter) : doc = <<[adapter |-> adapter, data |-> data]>>
  /\ parsed = <<>>

\* The importer folds the rows of its sheet into its mapping.
Fold ==
  /\ pc = "idle"
  /\ parsed = <<>>
  /\ doc[1].adapter \in SheetImporters
  /\ parsed' = << CASE doc[1].adapter = "nistcsf" -> nistcsfFold(doc[1].data)
                    [] doc[1].adapter = "bsic5" -> bsic5Fold(<<>>, doc[1].data)
                    [] doc[1].adapter = "ciscontrols" -> cisFold(doc[1].data) >>
  /\ UNCHANGED <<repo, nextId, Rollback, pc, importer, src, prog, calls,
                 completed, exitStatus, cause, deletes, pre, mark, earlier, doc>>

\* The importer enters its try block with the mapping it folded.
BeginMapping ==
  /\ pc = "idle"
  /\ completed = 0
  /\ parsed # <<>>
  /\ pc' = "running"
  /\ importer' = doc[1].adapter
  /\ prog' = CASE doc[1].adapter = "nistcsf" -> nistcsfOf(parsed[1])
               [] doc[1].adapter = "bsic5" -> bsic5Of(parsed[1])
               [] doc[1].adapter = "ciscontrols" -> ciscontrolsOf(parsed[1])
  /\ calls' = <<>>
  /\ pre' = repo
  /\ mark' = [l \in Lists |-> Len(Rollback[l])]
  /\ UNCHANGED <<repo, nextId, Rollback, src, completed, exitStatus, cause,
                 deletes, earlier, doc, parsed>>

\* asvs walks its document as it is.
BeginAsvs ==
  /\ pc = "idle"
  /\ completed = 0
  /\ doc[1].adapter = "asvs"
  /\ pc' = "running"
  /\ importer' = "asvs"
  /\ prog' = asvsOf(doc[1].data)
  /\ calls' = <<>>
  /\ pre' = repo
  /\ mark' = [l \in Lists |-> Len(Rollback[l])]
  /\ UNCHANGED <<repo, nextId, Rollback, src, completed, exitStatus, cause,
                 deletes, earlier, doc, parsed>>

NextSources ==
  \/ Fold
  \/ BeginMapping
  \/ BeginAsvs
  \/ CreateOk
  \/ CreateFail
  \/ RaiseInTry
  \/ Return
  \/ panic

SpecSources == InitSources /\ [][NextSources]_vars

\* ------------------------------------------------------------------ what a run did
\* The ids of the entities of a kind the current run created.
Created(kind) == CreatedIds(calls, kind)

\* The same, in creation order.
CreatedSeq(kind) ==
  LET cs == SelectSeq(calls, LAMBDA c : c.ok /\ c.kind = kind)
  IN  [i \in 1..Len(cs) |-> cs[i].id]

\* What the current run appended to a Rollback list.
Recorded(l) == SubSeq(Rollback[l], mark[l] + 1, Len(Rollback[l]))

\* The rollback has finished and every compensating delete succeeded.
RolledBack == pc = "exited" /\ \A i \in 1..Len(deletes) : deletes[i].ok

\* The importer returned normally.
Returned == pc = "idle" /\ completed >= 1

\* The successful Topic create that returned id.
TopicCall(id) ==
  CHOOSE c \in {calls[n] : n \in 1..Len(calls)} :
    c.ok /\ c.kind = "Topic" /\ c.id = id

\* The root Topic at the end of the parent chain that starts at Topic id.
RECURSIVE RootOf(_)
RootOf(id) ==
  IF TopicCall(id).parent = 0 THEN id ELSE RootOf(TopicCall(id).parent)

\* Call m created a Topic or Requirement under one of the root Topics.
Beneath(m, roots) ==
  /\ calls[m].ok
  /\ \/ calls[m].kind = "Topic" /\ RootOf(calls[m].id) \in roots
     \/ calls[m].kind = "Requirement" /\ calls[m].parent # 0
          /\ RootOf(calls[m].parent) \in roots

\* An entity of the kind with that id was created before call n was issued.
CreatedBefore(n, kind, id) ==
  \E m \in 1..(n - 1) : calls[m].ok /\ calls[m].kind = kind /\ calls[m].id = id

\* The delete of (kind, id) is issued before position i of the rollback.
DeletedBefore(i, kind, id) ==
  \E j \in 1..(i - 1) : deletes[j].kind = kind /\ deletes[j].id = id

\* ------------------------------------------------------------------ claims
\* C1: all-or-nothing commit. For every importer and every position at which
\* a create call can fail, once the rollback has finished with all
\* compensating deletes succeeding, the repository holds for each entity kind
\* exactly the entities it held before the run started.
C1_AllOrNothing == RolledBack => \A k \in Kinds : repo[k] = pre[k]

\* C2: whenever a run fails during upload (the exception handler is entered),
\* the process terminates with a non-zero exit status after the compensation.
C2_NonZeroExit == pc = "exited" => exitStatus # 0

\* C3: create-and-track invariant. At every point of a run, for each entity
\* kind, the identifiers the run appended to that kind's own Rollback list are
\* exactly the ids of the entities of that kind created so far, once each, in
\* creation order.
C3_CreateAndTrack ==
  pc \in {"running", "panic"} =>
    \A k \in Kinds : Recorded(ListOf(k)) = CreatedSeq(k)

\* C4: the recorded lists are scoped per run. When a run fails after an
\* earlier run of the same process succeeded, its rollback deletes only
\* entities the failing run created, and everything the earlier run created
\* is still present afterwards.
C4_RunScoped ==
  (pc = "exited" /\ completed >= 1) =>
    /\ \A k \in Kinds : earlier[k] \subseteq repo[k]
    /\ \A i \in 1..Len(deletes) :
         deletes[i].ok => deletes[i].id \in Created(deletes[i].kind)

C6_DependencySafeOrder ==
  pc = "exited" =>
    \A i \in 1..Len(deletes) :
      /\ (deletes[i].kind = "Topic" /\ deletes[i].id \in Created("Topic")) =>
           /\ \A r \in Created("Requirement") : DeletedBefore(i, "Requirement", r)
           /\ \A e \in Created("ExtraEntry") : DeletedBefore(i, "ExtraEntry", e)
      /\ (deletes[i].kind \in {"Tag", "ExtraType"}
            /\ deletes[i].id \in Created(deletes[i].kind)) =>
           \A t \in Created("Topic") : DeletedBefore(i, "Topic", t)
      /\ deletes[i].kind = "Catalogue" =>
           \A j \in i..Len(deletes) : deletes[j].kind = "Catalogue"

\* C7: a source-format error is always detected during parsing, before the
\* importer has issued any remote create call, so that the run aborts with
\* nothing to compensate.
C7_FormatErrorBeforeWrites ==
  cause = "format" =>
    /\ calls = <<>>
    /\ \A l \in Lists : Recorded(l) = <<>>

\* C8: creation order within a run. Every Topic is created after its parent
\* Topic, every Requirement after its parent Topic, every ExtraEntry after the
\* Requirement it is attached to, and a Catalogue only after all of its root
\* Topics and all Topics and Requirements beneath them; when the run has
\* returned, every Requirement's ancestor chain ends at a Topic listed as a
\* root of a Catalogue created in the run.
C8_CreationOrder ==
  /\ \A n \in 1..Len(calls) :
       LET c == calls[n] IN
       /\ c.kind = "Topic" /\ c.parent # 0 => CreatedBefore(n, "Topic", c.parent)
       /\ c.kind = "Requirement" => CreatedBefore(n, "Topic", c.parent)
       /\ c.kind = "ExtraEntry" => CreatedBefore(n, "Requirement", c.req)
       /\ c.kind = "Catalogue" =>
            /\ \A t \in Elems(c.topics) : CreatedBefore(n, "Topic", t)
            /\ \A m \in 1..Len(calls) : Beneath(m, Elems(c.topics)) => m < n
  /\ Returned =>
       \A n \in 1..Len(calls) :
         calls[n].kind = "Requirement" =>
           \E m \in 1..Len(calls) :
             /\ calls[m].ok
             /\ calls[m].kind = "Catalogue"
             /\ RootOf(calls[n].parent) \in Elems(calls[m].topics)

\* A run returned after creating nested Topics, Requirements with
\* ExtraEntries and its Catalogue over more than one root Topic.
C8_Witness ==
  /\ Returned
  /\ \E n \in 1..Len(calls) : calls[n].kind = "ExtraEntry"
  /\ \E n \in 1..Len(calls) :
       calls[n].kind = "Requirement" /\ TopicCall(calls[n].parent).parent # 0
  /\ \E n \in 1..Len(calls) :
       calls[n].kind = "Catalogue" /\ Len(calls[n].topics) > 1

\* C9: every element of the tags list passed to a Requirement create call,
\* and every extraTypeId passed to an ExtraEntry create call, is a Tag or
\* ExtraType that was successfully created earlier in the same run; a BSI
\* requirement whose heading carries no classification code is created with a
\* tags list that holds no reference to a non-existent Tag.
C9_TagsExist ==
  \A n \in 1..Len(calls) :
    /\ calls[n].kind = "Requirement" =>
         \A t \in Elems(calls[n].tags) : CreatedBefore(n, "Tag", t)
    /\ calls[n].kind = "ExtraEntry" =>
         CreatedBefore(n, "ExtraType", calls[n].etype)

C20_RollbackOwnEntities ==
  pc = "exited" =>
    /\ \A i \in 1..Len(deletes) : deletes[i].id \in Created(deletes[i].kind)
    /\ \A i, j \in 1..Len(deletes) :
         (deletes[i].kind = deletes[j].kind /\ deletes[i].id = deletes[j].id) => i = j

\* ------------------------------------------------------------------ claims on requirement headings
\* The requirement sections of the document's topic, and what the parser
\* kept for that topic.
HeadingSections == doc[1].topics[1].requirements

HeadingEntry == parsed[1].value.children[1].value

CodeOf(section) == SplitFirst(section.title, <<" ">>)[1]

TitleOf(section) == SplitFirst(section.title, <<" ">>)[2]

Keys(d) == {d[i].key : i \in 1..Len(d)}

\* The value kept under key k.
Stored(d, k) == (CHOOSE item \in Elems(d) : item.key = k).value

MalformedCode == <<"O", "P", "S", ".", "2", ".", "3", "A", "2", "2">>

CorrectedCode == <<"O", "P", "S", ".", "2", ".", "3", ".", "A", "2", "2">>

\* The section is the last one of the topic with its requirement key.
LastWithKey(n) ==
  \A m \in (n + 1)..Len(HeadingSections) :
    RequirementKey(CodeOf(HeadingSections[m])) # RequirementKey(CodeOf(HeadingSections[n]))

\* C11: the correction applied to a requirement code before its key is
\* derived rewrites OPS.2.3A22 to OPS.2.3.A22, whose key is OPS.02.03.A22, and
\* leaves every other code as it is: the keys kept for a topic are the
\* normalized codes of its sections, the malformed code counted as corrected.
C11_CorrectionStep ==
  ( /\ pc = "crashed" \/ parsed # <<>>
    /\ \A r \in Elems(HeadingSections) :
         Find(CodeOf(r), <<".", "A">>) # 0 \/ CodeOf(r) = MalformedCode )
  => /\ parsed # <<>>
     /\ \A r \in Elems(HeadingSections) :
          FixRequirementCode(CodeOf(r)) =
            IF CodeOf(r) = MalformedCode THEN CorrectedCode ELSE CodeOf(r)
     /\ Keys(HeadingEntry.requirements) =
          {NormalizeRequirementCode(
             IF CodeOf(r) = MalformedCode THEN CorrectedCode ELSE CodeOf(r)) :
             r \in Elems(HeadingSections)}
     /\ \A r \in Elems(HeadingSections) :
          CodeOf(r) = MalformedCode =>
            <<"O", "P", "S", ".", "0", "2", ".", "0", "3", ".", "A", "2", "2">> \in Keys(HeadingEntry.requirements)

\* A topic with the malformed code and another code was read.
C11_Witness ==
  /\ parsed # <<>>
  /\ \E r1, r2 \in Elems(HeadingSections) :
       /\ CodeOf(r1) = MalformedCode
       /\ CodeOf(r2) \notin {MalformedCode, CorrectedCode}
  /\ Len(HeadingEntry.requirements) = 2

EndsWithCode(title, X) ==
  /\ Len(title) >= 4
  /\ SubSeq(title, Len(title) - 3, Len(title)) = <<" ", "(", X, ")">>

\* The title has a parenthesised classification code somewhere.
HasCode(title) ==
  \E i \in 1..(Len(title) - 2) :
    title[i] = "(" /\ title[i + 1] \in {"B", "S", "H"} /\ title[i + 2] = ")"

\* C13: a requirement title of the form "... (X)", X one of B, S, H, is kept
\* with tag X and with the parenthetical removed from the title; a title
\* without such a parenthetical is kept unchanged and without a tag.
C13_TagAndTitle ==
  parsed # <<>> =>
    \A n \in 1..Len(HeadingSections) :
      LastWithKey(n) =>
        LET title == TitleOf(HeadingSections[n])
            kept == Stored(HeadingEntry.requirements,
                           RequirementKey(CodeOf(HeadingSections[n])))
        IN  /\ \A X \in {"B", "S", "H"} :
                 EndsWithCode(title, X) =>
                   /\ kept.tag = X
                   /\ kept.title = SubSeq(title, 1, Len(title) - 4)
            /\ ~HasCode(title) => kept.tag = "None" /\ kept.title = title

\* C16: a run in which no create fails issues one Topic create per mapping
\* key of each level and one Requirement create per leaf of the mapping it
\* walks, each with the key and the title of its own mapping entry and with
\* the Topic created for the enclosing mapping key as its parent.
C16_OnePerMappingEntry ==
  Returned =>
    \A n \in 1..Len(calls) :
      calls[n].kind \in {"Topic", "Requirement"} =>
        /\ calls[n].titleOf = calls[n].key
        /\ IF Len(calls[n].key) = 1 THEN calls[n].parent = 0
           ELSE /\ calls[n].parent # 0
                /\ TopicCall(calls[n].parent).key =
                     SubSeq(calls[n].key, 1, Len(calls[n].key) - 1)
        /\ \A m \in 1..(n - 1) :
             (calls[m].kind = calls[n].kind /\ calls[m].key = calls[n].key) =>
               \E c \in (m + 1)..(n - 1) : calls[c].kind = "Catalogue"

\* ------------------------------------------------------------------ claims on the BSI requirements
\* Call n creates a requirement of the building-block catalogue: it is issued
\* before the first Catalogue create.
BuildingBlockRequirement(n) ==
  /\ calls[n].ok
  /\ calls[n].kind = "Requirement"
  /\ \A m \in 1..(n - 1) : calls[m].kind # "Catalogue"

SupersededMarker == <<"E", "N", "T", "F", "A", "L", "L", "E", "N", " ", "(">>

IsSuperseded(title) ==
  /\ Len(title) >= Len(SupersededMarker)
  /\ \A i \in 1..Len(SupersededMarker) : title[i] = SupersededMarker[i]

\* C14: a BSI requirement whose title starts with "ENTFALLEN (" is created
\* with visible=false and every other one with visible=true, and once the
\* building-block catalogue is written every requirement heading of the
\* document has its one Requirement, superseded or not.
C14_SupersededHidden ==
  /\ \A n \in 1..Len(calls) :
       BuildingBlockRequirement(n) =>
         calls[n].visible = ~IsSuperseded(calls[n].title)
  /\ (\E c \in 1..Len(calls) : calls[c].kind = "Catalogue") =>
       \A s \in 1..Len(HeadingSections) :
         LastWithKey(s) =>
           \E n \in 1..Len(calls) :
             /\ BuildingBlockRequirement(n)
             /\ calls[n].key = RequirementKey(CodeOf(HeadingSections[s]))
             /\ calls[n].title = TitleOf(HeadingSections[s])
             /\ calls[n].visible = ~IsSuperseded(TitleOf(HeadingSections[s]))
             /\ \A m \in 1..Len(calls) :
                  (BuildingBlockRequirement(m) /\ calls[m].key = calls[n].key) => m = n

\* A run returned after creating a hidden and a visible requirement.
C14_Witness ==
  /\ Returned
  /\ \E n, m \in 1..Len(calls) :
       /\ BuildingBlockRequirement(n) /\ ~calls[n].visible
       /\ BuildingBlockRequirement(m) /\ calls[m].visible

\* The successful create calls of a kind the current run made.
CreateCalls(kind) == {calls[n] : n \in {m \in 1..Len(calls) : calls[m].ok /\ calls[m].kind = kind}}

\* The importer that ran on the sheet or document, and the sheet itself.
RanOn(adapter) == doc[1].adapter = adapter /\ importer = adapter

\* C15: in the bsic5 importer, the sheet with the single row
\* {Area: "A (A1)", ID: "A1.1", Title: "T"} produces exactly one Topic, with
\* key A1 and title "A", and exactly one Requirement, with key A1.1 and
\* title "T", whose parent is that Topic.
C15_Bsic5Row ==
  (/\ Returned
   /\ RanOn("bsic5")
   /\ doc[1].data = <<[Area |-> <<"A", " ", "(", "A", "1", ")">>, ID |-> <<"A", "1", ".", "1">>, Title |-> <<"T">>]>>)
    => /\ Cardinality(CreateCalls("Topic")) = 1
       /\ Cardinality(CreateCalls("Requirement")) = 1
       /\ \A t \in CreateCalls("Topic") :
            /\ t.key = <<"A", "1">>
            /\ t.title = <<"A">>
            /\ \A r \in CreateCalls("Requirement") :
                 /\ r.key = <<"A", "1", ".", "1">>
                 /\ r.title = <<"T">>
                 /\ r.parent = t.id

\* C15 as the code has it: the same row produces exactly one Topic, with key
\* C5-A1 and title "A", and exactly one Requirement, with key A1.1 and title
\* "T", whose parent is that Topic.
C15_Bsic5RowPrefixed ==
  (/\ Returned
   /\ RanOn("bsic5")
   /\ doc[1].data = <<[Area |-> <<"A", " ", "(", "A", "1", ")">>, ID |-> <<"A", "1", ".", "1">>, Title |-> <<"T">>]>>)
    => /\ Cardinality(CreateCalls("Topic")) = 1
       /\ Cardinality(CreateCalls("Requirement")) = 1
       /\ \A t \in CreateCalls("Topic") :
            /\ t.key = <<"C", "5", "-", "A", "1">>
            /\ t.title = <<"A">>
            /\ \A r \in CreateCalls("Requirement") :
                 /\ r.key = <<"A", "1", ".", "1">>
                 /\ r.title = <<"T">>
                 /\ r.parent = t.id

\* A bsic5 run on that one-row sheet has returned with its Topic and its
\* Requirement created.
C15_Witness ==
  /\ Returned
  /\ RanOn("bsic5")
  /\ Len(doc[1].data) = 1
  /\ doc[1].data[1].Area = <<"A", " ", "(", "A", "1", ")">>
  /\ doc[1].data[1].ID = <<"A", "1", ".", "1">>
  /\ CreateCalls("Topic") # {}
  /\ CreateCalls("Requirement") # {}

\* The last non-blank cell of a column at or above row i (<<>>: none).
InEffect(cells, i) ==
  LET NonBlank == {j \in 1..i : cells[j] # <<>>}
  IN  IF NonBlank = {} THEN <<>>
      ELSE cells[CHOOSE j \in NonBlank : \A x \in NonBlank : x <= j]

\* The code in the parentheses of a Function or Category cell.
CodeIn(cell) == GreedyParen(SplitFirst(cell, <<":">>)[1])[2]

\* Row i of the nistcsf sheet is in the mapping under the function and the
\* category in effect at the row.
nistcsfRowKept(o, data, i) ==
  LET function == CodeIn(InEffect([j \in 1..Len(data) |-> data[j].Function], i))
      category == CodeIn(InEffect([j \in 1..Len(data) |-> data[j].Category], i))
      requirement == SplitFirst(data[i].Subcategory, <<":">>)[1]
  IN  /\ DictHas(o, function)
      /\ DictHas(DictGet(o, function).children, category)
      /\ DictHas(DictGet(DictGet(o, function).children, category).requirements,
                 requirement)

\* Row i of the bsic5 sheet is in the mapping under the area in effect at the
\* row.
bsic5RowKept(o, data, i) ==
  LET area == InEffect([j \in 1..Len(data) |-> data[j].Area], i)
  IN  area # <<>> => DictHas(o, area) /\ DictHas(DictGet(o, area), data[i].ID)

\* C17: in the tabular adapters a row with a blank hierarchy cell (nistcsf
\* Function or Category, bsic5 Area) belongs to the last non-blank value of
\* the column, and the fold loses no requirement: every row whose requirement
\* identifier is non-blank and occurs in no other row is in the mapping under
\* the function, category or area in effect at the row, also when a Category
\* or Function value is repeated on a later row.
C17_FoldLosesNoRow ==
  (parsed # <<>> /\ doc[1].adapter \in {"nistcsf", "bsic5"}) =>
    LET data == doc[1].data
    IN  \A i \in 1..Len(data) :
          IF doc[1].adapter = "nistcsf"
          THEN (\A j \in 1..Len(data) :
                  j # i => data[j].Subcategory # data[i].Subcategory)
                 => nistcsfRowKept(parsed[1], data, i)
          ELSE (\A j \in 1..Len(data) : j # i => data[j].ID # data[i].ID)
                 => bsic5RowKept(parsed[1], data, i)

\* The characters of the keys in the order of their code points.
CodePointOrder ==
  <<" ", "(", ")", "-", ".", "0", "1", "2", "3", "4", "5", "6", "7", "8", "9", "A", "B", "C", "D", "E", "F", "G", "H", "I", "J", "K">> \o
  <<"L", "M", "N", "O", "P", "Q", "R", "S", "T", "U", "V", "W", "X", "Y", "Z", "a", "b", "c", "d", "e", "f", "g", "h", "i", "j", "k", "l", "m", "n", "o", "p", "q", "r", "s", "t", "u", "v", "w", "x", "y", "z">>

\* a < b on two strings, as Python and the repository's sort compare them.
LexLess(a, b) ==
  \E k \in 1..Len(b) :
    /\ \A j \in 1..(k - 1) : j <= Len(a) /\ a[j] = b[j]
    /\ \/ k > Len(a)
       \/ Find(CodePointOrder, <<a[k]>>) < Find(CodePointOrder, <<b[k]>>)

IsDigit(ch) == \E d \in 1..10 : Digit[d] = ch

\* The maximal runs of digits and of other characters of s, in order.
RECURSIVE Runs(_)
Runs(s) ==
  IF s = <<>> THEN <<>>
  ELSE LET Same == {n \in 1..Len(s) :
                      \A j \in 1..n : IsDigit(s[j]) = IsDigit(s[1])}
           n == CHOOSE x \in Same : \A y \in Same : y <= x
       IN  <<SubSeq(s, 1, n)>> \o Runs(SubSeq(s, n + 1, Len(s)))

\* int(r) of a run of digits.
RECURSIVE ToInt(_)
ToInt(r) ==
  IF r = <<>> THEN 0
  ELSE 10 * ToInt(SubSeq(r, 1, Len(r) - 1))
         + (CHOOSE d \in 0..9 : Digit[d + 1] = r[Len(r)])

\* The numbers of the source numbering a key carries, in order.
Numbers(key) ==
  LET runs == SelectSeq(Runs(key), LAMBDA r : IsDigit(r[1]))
  IN  [i \in 1..Len(runs) |-> ToInt(runs[i])]

\* The key with every number replaced by "#".
Skeleton(key) ==
  Cat([i \in 1..Len(Runs(key)) |->
         IF IsDigit(Runs(key)[i][1]) THEN <<"#">> ELSE Runs(key)[i]])

\* m comes before n in the numeric order of the numbering.
NumericLess(m, n) ==
  /\ Len(m) = Len(n)
  /\ \E k \in 1..Len(m) : m[k] < n[k] /\ \A j \in 1..(k - 1) : m[j] = n[j]

\* Two Topics or two Requirements the run created under the same parent
\* (root Topics have none).
Siblings(a, b) ==
  /\ a.kind = b.kind
  /\ a.kind \in {"Topic", "Requirement"}
  /\ a.parent = b.parent
  /\ a.id # b.id

\* C18: every adapter zero-pads the numeric segments of the Topic and
\* Requirement keys it produces, so that among the siblings a run creates the
\* lexical order of the keys is the numeric order of the source numbering:
\* of two sibling keys that differ in their numbers only, the one with the
\* smaller numbers (control 2 against control 10) is the lexically smaller.
C18_LexicalIsNumeric ==
  \A a, b \in CreateCalls("Topic") \cup CreateCalls("Requirement") :
    (/\ Siblings(a, b)
     /\ Skeleton(a.key) = Skeleton(b.key)
     /\ NumericLess(Numbers(a.key), Numbers(b.key)))
      => LexLess(a.key, b.key)

\* C19: sibling keys are unique. In any run no two Topics created under the
\* same parent (or as roots of the same Catalogue) have the same key, and no
\* two Requirements created under the same Topic have the same key, whatever
\* the source holds, codes that differ before normalization and coincide
\* after it included.
C19_SiblingKeysUnique ==
  \A a, b \in CreateCalls("Topic") \cup CreateCalls("Requirement") :
    Siblings(a, b) => a.key # b.key
====
